---- MODULE Spec2Model ----
\* Offline cache subsystem of Dramamu: the service worker (service-worker.js,
\* kept as src/unnamed/part_003) and the page's CacheManager
\* (src/frontend/premium-init.js), sharing the origin's CacheStorage and
\* localStorage.
EXTENDS Integers, Sequences, FiniteSets, TLC

\* ---------------------------------------------------------------- bounds
\* Fetch events the worker handles in one run.
MaxReq == 2
\* Page loads (each constructs a CacheManager) in one run.
MaxLoads == 2
\* Distinct version tokens getVersion() may return in one run.
MaxToken == 2
\* Longest URL list handed to precacheAssets.
MaxUrls == 2
\* Distinct bodies the network may serve for one URL.
MaxBody == 2

\* Two fetch events are under way at a time, and two pages are open at a time:
\* a slot is taken again once its event, or its page, is over.
Slots == {1, 2}
Tabs == {1, 2}
Tokens == 1 .. MaxToken

\* ------------------------------------------------------------ cache names
\* A cache name is the sequence of its '-'-separated parts;
\* 'dramamu-v1.0.0-assets' is <<"dramamu", "v1.0.0", "assets">>.
CACHE_VERSION == <<"dramamu", "v1.0.0">>
CACHE_ASSETS == CACHE_VERSION \o <<"assets">>
CACHE_PAGES == CACHE_VERSION \o <<"pages">>
\* Names left in the origin's CacheStorage by an earlier deploy of the product
\* and by other code of the origin.
OldProductCache == <<"dramamu", "v0.9.0", "assets">>
ForeignCache == <<"workbox", "precache", "v2">>
GroupNames == {CACHE_ASSETS, CACHE_PAGES, OldProductCache, ForeignCache}

\* cacheName.includes(token)
Includes(name, token) == \E i \in DOMAIN name : name[i] = token

\* ------------------------------------------------------ requests, responses
\* url.pathname, split at its last dot into base and extension.
PathRoot == [base |-> "/", ext |-> ""]
PathHome == [base |-> "/home", ext |-> "html"]
PathCss == [base |-> "/premium-styles", ext |-> "css"]
PathIcons == [base |-> "/premium-icons", ext |-> "js"]
PathInit == [base |-> "/premium-init", ext |-> "js"]
PathJs == [base |-> "/navbar", ext |-> "js"]
PathConfig == [base |-> "/config", ext |-> "js"]
PathCacheManager == [base |-> "/cache-manager", ext |-> "js"]
PathImg == [base |-> "/logo", ext |-> "PNG"]
PathApi == [base |-> "/api/drama", ext |-> ""]
NoPath == [base |-> "", ext |-> ""]
ASSETS_TO_CACHE == <<PathCss, PathIcons, PathInit, PathJs, PathConfig, PathCacheManager>>
Manifest == {ASSETS_TO_CACHE[i] : i \in DOMAIN ASSETS_TO_CACHE}
Paths == {PathHome, PathImg, PathApi} \cup Manifest

\* The requests the browser hands to the worker in this model.
Requests ==
    { [method |-> "GET", sameOrigin |-> TRUE, path |-> PathHome, accept |-> <<"text/html", "*/*">>],
      [method |-> "GET", sameOrigin |-> TRUE, path |-> PathCss, accept |-> <<"text/css", "*/*">>],
      [method |-> "GET", sameOrigin |-> TRUE, path |-> PathCss, accept |-> <<"text/html", "*/*">>],
      [method |-> "GET", sameOrigin |-> TRUE, path |-> PathImg, accept |-> <<"image/*">>],
      [method |-> "GET", sameOrigin |-> TRUE, path |-> PathApi, accept |-> <<>>],
      [method |-> "POST", sameOrigin |-> TRUE, path |-> PathApi, accept |-> <<"*/*">>],
      [method |-> "GET", sameOrigin |-> FALSE, path |-> PathCss, accept |-> <<"*/*">>] }
NoRequest == [method |-> "", sameOrigin |-> FALSE, path |-> NoPath, accept |-> <<>>]

\* A response is its status and its body (a number standing for the bytes).
NoResp == [status |-> 0, body |-> 0]
\* What fetch(request) can settle with: a response, or NetError when it rejects
\* (the network is unreachable, the request is aborted).
NetResponses ==
    {[status |-> 200, body |-> b] : b \in 1 .. MaxBody} \cup {[status |-> 500, body |-> 0]}
NetError == [status |-> -1, body |-> 0]
NetOutcomes == NetResponses \cup {NetError}
\* Entries already cached before this run (body 0: older than anything the
\* network serves now).
StaleResp == [status |-> 200, body |-> 0]

OfflinePage == [status |-> 503, body |-> 0]
OfflineResource == [status |-> 503, body |-> 0]

VARIABLES
    cacheKeys,   \* caches.keys(): the existing cache groups, in creation order
    cacheData,   \* cacheData[name][path]: the stored response, or NoResp
    fe,          \* fe[r]: the handling of fetch event r by the worker
    sw,          \* the worker: its lifecycle state, its install and activate steps
    marker,      \* localStorage['dramamu-cache-version']; 0 is null
    tab,         \* tab[t]: the CacheManager of page t
    fr,          \* the run of CacheManager.forceRefresh()
    pre,         \* the run of CacheManager.precacheAssets(urls)
    env,         \* the browser: 'serviceWorker' in navigator, 'caches' in window
    count        \* fetch events dispatched and pages loaded so far

storageVars == <<cacheKeys, cacheData>>
pageVars == <<marker, tab, fr, pre, env>>
NoCount == [fetches |-> 0, loads |-> 0]
vars == <<cacheKeys, cacheData, fe, sw, marker, tab, fr, pre, env, count>>

EmptyCache == [p \in Paths |-> NoResp]
KeySet == {cacheKeys[i] : i \in DOMAIN cacheKeys}

\* ------------------------------------------------------------ CacheStorage
\* caches.match(request): the entry of the first group, in creation order,
\* that holds one for the request's URL; NoResp (undefined) when none does.
MatchingIndexes(path) ==
    {i \in DOMAIN cacheKeys : cacheData[cacheKeys[i]][path] # NoResp}
FirstIndex(S) == CHOOSE i \in S : \A j \in S : i <= j
MatchGroup(path) ==
    IF MatchingIndexes(path) = {} THEN <<>>
    ELSE cacheKeys[FirstIndex(MatchingIndexes(path))]
Match(path) ==
    IF MatchingIndexes(path) = {} THEN NoResp
    ELSE cacheData[MatchGroup(path)][path]

\* caches.open(name): creates the group when it does not exist.
KeysAfterOpen(name) ==
    IF name \in KeySet THEN cacheKeys ELSE Append(cacheKeys, name)

\* caches.delete(name) on the key list.
RECURSIVE Without(_, _)
Without(keys, name) ==
    IF keys = <<>> THEN <<>>
    ELSE IF Head(keys) = name THEN Without(Tail(keys), name)
    ELSE <<Head(keys)>> \o Without(Tail(keys), name)

\* Dropping a group detaches the Cache objects already opened on it: a write
\* still in flight through such an object no longer reaches CacheStorage.
PutTarget(f) == IF f.strategy = "networkFirst" THEN CACHE_PAGES ELSE CACHE_ASSETS
DetachPuts(names) ==
    [r \in Slots |->
        IF fe[r].put = "pending" /\ PutTarget(fe[r]) \in names
        THEN [fe[r] EXCEPT !.putLive = FALSE] ELSE fe[r]]

\* ------------------------------------------------- worker: the fetch handler
EndsWith(path, ext) == path.ext = ext
ToLowerCase(s) ==
    CASE s = "PNG" -> "png" [] s = "JPG" -> "jpg" [] s = "SVG" -> "svg" [] OTHER -> s
ImageExtensions == {"png", "jpg", "jpeg", "gif", "svg", "webp"}

\* The four branches of the fetch handler, in the order the code tests them.
Classify(q) ==
    IF Includes(q.accept, "text/html") \/ q.path = PathRoot \/ EndsWith(q.path, "html")
    THEN "document"
    ELSE IF EndsWith(q.path, "css") \/ EndsWith(q.path, "js") THEN "static-asset"
    ELSE IF ToLowerCase(q.path.ext) \in ImageExtensions THEN "image"
    ELSE "default"

\* StrategyOf with network-first for the document class only.
StrategyOf_DocumentOnly(class) ==
    IF class = "document" THEN "networkFirst" ELSE "cacheFirst"

\* The strategy each branch hands the request to.
StrategyOf(class) ==
    IF class \in {"document", "default"} THEN "networkFirst" ELSE "cacheFirst"

\* Skipped without the test of the origin.
Skipped_GetOnly(q) == q.method # "GET"

\* The requests the handler leaves to the browser.
Skipped(q) == q.method # "GET" \/ ~q.sameOrigin

IdleFetch ==
    [pc |-> "idle", request |-> NoRequest, class |-> "none", strategy |-> "none",
     net |-> "none", response |-> NoResp, lookup |-> "none", hitGroup |-> <<>>,
     opened |-> "none", put |-> "none", putLive |-> FALSE, afterReload |-> FALSE,
     result |-> [via |-> "none", resp |-> NoResp]]

Returned(f, via, resp) ==
    [f EXCEPT !.pc = "done", !.result = [via |-> via, resp |-> resp]]

\* A slot is free before its first event and once its event is over: the
\* strategy has returned and the write it started has settled.
FreeSlot(r) ==
    /\ fe[r].pc \in {"idle", "passthrough", "done"}
    /\ fe[r].put # "pending"

\* The fetch listener: returns at once for a skipped request, else calls
\* event.respondWith(strategy(request)); the strategy runs to its first await.
FetchEvent(r, q) ==
    /\ sw.state = "activated"
    /\ count.fetches < MaxReq
    /\ FreeSlot(r)
    /\ \A s \in Slots : s < r => ~FreeSlot(s)
    /\ count' = [count EXCEPT !.fetches = @ + 1]
    /\ fe' = [fe EXCEPT ![r] =
                IF Skipped(q)
                THEN [IdleFetch EXCEPT !.pc = "passthrough", !.request = q]
                ELSE [IdleFetch EXCEPT
                        !.request = q,
                        !.afterReload = fr.reloaded,
                        !.class = Classify(q),
                        !.strategy = StrategyOf(Classify(q)),
                        !.net = IF StrategyOf(Classify(q)) = "networkFirst"
                                THEN "pending" ELSE "none",
                        !.pc = IF StrategyOf(Classify(q)) = "networkFirst"
                               THEN "nf_fetch" ELSE "cf_match"]]
    /\ UNCHANGED <<cacheKeys, cacheData, sw, pageVars>>

\* NetworkFirstFetched with every response other than a 200 treated as a
\* network failure.
NetworkFirstFetched_FallbackOnStatus(r, out) ==
    /\ fe[r].pc = "nf_fetch"
    /\ fe' = [fe EXCEPT ![r] =
                IF out = NetError
                THEN [@ EXCEPT !.net = "error", !.pc = "nf_match"]
                ELSE IF out.status = 200
                THEN [@ EXCEPT !.net = "ok", !.response = out, !.pc = "nf_open"]
                ELSE [@ EXCEPT !.net = "ok", !.response = out, !.pc = "nf_match"]]
    /\ UNCHANGED <<cacheKeys, cacheData, sw, pageVars, count>>

\* networkFirstStrategy: `await fetch(request)` settles with `out`.
NetworkFirstFetched(r, out) ==
    /\ fe[r].pc = "nf_fetch"
    /\ fe' = [fe EXCEPT ![r] =
                IF out = NetError
                THEN [@ EXCEPT !.net = "error", !.pc = "nf_match"]
                ELSE IF out.status = 200
                THEN [@ EXCEPT !.net = "ok", !.response = out, !.pc = "nf_open"]
                ELSE Returned([@ EXCEPT !.net = "ok", !.response = out], "network", out)]
    /\ UNCHANGED <<cacheKeys, cacheData, sw, pageVars, count>>

\* NetworkFirstOpened without the cache.put.
NetworkFirstOpened_NoPut(r, ok) ==
    /\ fe[r].pc = "nf_open"
    /\ IF ok
       THEN /\ cacheKeys' = KeysAfterOpen(CACHE_PAGES)
            /\ fe' = [fe EXCEPT ![r] =
                        Returned([@ EXCEPT !.opened = "ok"], "network", fe[r].response)]
       ELSE /\ cacheKeys' = cacheKeys
            /\ fe' = [fe EXCEPT ![r] = [@ EXCEPT !.opened = "rejected", !.pc = "nf_match"]]
    /\ UNCHANGED <<cacheData, sw, pageVars, count>>

\* networkFirstStrategy: `await caches.open(CACHE_PAGES)` settles; on success
\* cache.put is started (not awaited) and the response returned, on failure
\* the catch block runs.
NetworkFirstOpened(r, ok) ==
    /\ fe[r].pc = "nf_open"
    /\ IF ok
       THEN /\ cacheKeys' = KeysAfterOpen(CACHE_PAGES)
            /\ fe' = [fe EXCEPT ![r] =
                        Returned([@ EXCEPT !.opened = "ok", !.put = "pending",
                                           !.putLive = TRUE],
                                 "network", fe[r].response)]
       ELSE /\ cacheKeys' = cacheKeys
            /\ fe' = [fe EXCEPT ![r] = [@ EXCEPT !.opened = "rejected", !.pc = "nf_match"]]
    /\ UNCHANGED <<cacheData, sw, pageVars, count>>

\* networkFirstStrategy, catch block: `await caches.match(request)` settles.
NetworkFirstMatched(r, ok) ==
    /\ fe[r].pc = "nf_match"
    /\ fe' = [fe EXCEPT ![r] =
                IF ~ok
                THEN Returned([@ EXCEPT !.lookup = "rejected"], "rejected", NoResp)
                ELSE IF Match(fe[r].request.path) # NoResp
                THEN Returned([@ EXCEPT !.lookup = "hit",
                                        !.hitGroup = MatchGroup(fe[r].request.path)],
                              "cache", Match(fe[r].request.path))
                ELSE Returned([@ EXCEPT !.lookup = "miss"], "synthetic", OfflinePage)]
    /\ UNCHANGED <<cacheKeys, cacheData, sw, pageVars, count>>

\* CacheFirstMatched that refreshes a hit from the network.
CacheFirstMatched_Revalidate(r, ok) ==
    /\ fe[r].pc = "cf_match"
    /\ fe' = [fe EXCEPT ![r] =
                IF ~ok
                THEN Returned([@ EXCEPT !.lookup = "rejected"], "rejected", NoResp)
                ELSE IF Match(fe[r].request.path) # NoResp
                THEN [@ EXCEPT !.lookup = "hit", !.hitGroup = MatchGroup(fe[r].request.path),
                               !.net = "pending", !.pc = "cf_fetch"]
                ELSE [@ EXCEPT !.lookup = "miss", !.net = "pending", !.pc = "cf_fetch"]]
    /\ UNCHANGED <<cacheKeys, cacheData, sw, pageVars, count>>

\* cacheFirstStrategy: `await caches.match(request)` settles.
CacheFirstMatched(r, ok) ==
    /\ fe[r].pc = "cf_match"
    /\ fe' = [fe EXCEPT ![r] =
                IF ~ok
                THEN Returned([@ EXCEPT !.lookup = "rejected"], "rejected", NoResp)
                ELSE IF Match(fe[r].request.path) # NoResp
                THEN Returned([@ EXCEPT !.lookup = "hit",
                                        !.hitGroup = MatchGroup(fe[r].request.path)],
                              "cache", Match(fe[r].request.path))
                ELSE [@ EXCEPT !.lookup = "miss", !.net = "pending", !.pc = "cf_fetch"]]
    /\ UNCHANGED <<cacheKeys, cacheData, sw, pageVars, count>>

\* CacheFirstFetched that stores whatever response the network gave.
CacheFirstFetched_StoreAny(r, out) ==
    /\ fe[r].pc = "cf_fetch"
    /\ fe' = [fe EXCEPT ![r] =
                IF out = NetError
                THEN Returned([@ EXCEPT !.net = "error"], "synthetic", OfflineResource)
                ELSE [@ EXCEPT !.net = "ok", !.response = out, !.pc = "cf_open"]]
    /\ UNCHANGED <<cacheKeys, cacheData, sw, pageVars, count>>

\* cacheFirstStrategy: `await fetch(request)` settles with `out`.
CacheFirstFetched(r, out) ==
    /\ fe[r].pc = "cf_fetch"
    /\ fe' = [fe EXCEPT ![r] =
                IF out = NetError
                THEN Returned([@ EXCEPT !.net = "error"], "synthetic", OfflineResource)
                ELSE IF out.status = 200
                THEN [@ EXCEPT !.net = "ok", !.response = out, !.pc = "cf_open"]
                ELSE Returned([@ EXCEPT !.net = "ok", !.response = out], "network", out)]
    /\ UNCHANGED <<cacheKeys, cacheData, sw, pageVars, count>>

\* CacheFirstOpened without the cache.put.
CacheFirstOpened_NoPut(r, ok) ==
    /\ fe[r].pc = "cf_open"
    /\ IF ok
       THEN /\ cacheKeys' = KeysAfterOpen(CACHE_ASSETS)
            /\ fe' = [fe EXCEPT ![r] =
                        Returned([@ EXCEPT !.opened = "ok"], "network", fe[r].response)]
       ELSE /\ cacheKeys' = cacheKeys
            /\ fe' = [fe EXCEPT ![r] =
                        Returned([@ EXCEPT !.opened = "rejected"],
                                 "synthetic", OfflineResource)]
    /\ UNCHANGED <<cacheData, sw, pageVars, count>>

\* cacheFirstStrategy: `await caches.open(CACHE_ASSETS)` settles; on success
\* cache.put is started (not awaited) and the response returned, on failure
\* the catch block returns the 503.
CacheFirstOpened(r, ok) ==
    /\ fe[r].pc = "cf_open"
    /\ IF ok
       THEN /\ cacheKeys' = KeysAfterOpen(CACHE_ASSETS)
            /\ fe' = [fe EXCEPT ![r] =
                        Returned([@ EXCEPT !.opened = "ok", !.put = "pending",
                                           !.putLive = TRUE],
                                 "network", fe[r].response)]
       ELSE /\ cacheKeys' = cacheKeys
            /\ fe' = [fe EXCEPT ![r] =
                        Returned([@ EXCEPT !.opened = "rejected"],
                                 "synthetic", OfflineResource)]
    /\ UNCHANGED <<cacheData, sw, pageVars, count>>

\* CachePutSettled that keeps an entry already stored for the URL.
CachePutSettled_KeepFirst(r, ok) ==
    /\ fe[r].put = "pending"
    /\ IF ok /\ fe[r].putLive /\ cacheData[PutTarget(fe[r])][fe[r].request.path] = NoResp
       THEN cacheData' = [cacheData EXCEPT ![PutTarget(fe[r])][fe[r].request.path] =
                                                fe[r].response]
       ELSE cacheData' = cacheData
    /\ fe' = [fe EXCEPT ![r].put = IF ~ok THEN "failed"
                                   ELSE IF fe[r].putLive THEN "stored" ELSE "lost"]
    /\ UNCHANGED <<cacheKeys, sw, pageVars, count>>

\* The cache.put either strategy started settles: the clone is stored under
\* the request's URL (replacing an entry already there), or the write fails.
CachePutSettled(r, ok) ==
    /\ fe[r].put = "pending"
    /\ IF ok /\ fe[r].putLive
       THEN cacheData' = [cacheData EXCEPT ![PutTarget(fe[r])][fe[r].request.path] =
                                                fe[r].response]
       ELSE cacheData' = cacheData
    /\ fe' = [fe EXCEPT ![r].put = IF ~ok THEN "failed"
                                   ELSE IF fe[r].putLive THEN "stored" ELSE "lost"]
    /\ UNCHANGED <<cacheKeys, sw, pageVars, count>>

\* ------------------------------------------- worker: install and activate
IdleWorker ==
    [state |-> "parsed", skipWaiting |-> FALSE,
     install |-> "none", cacheLive |-> FALSE, fetched |-> {}, stored |-> {},
     logged |-> FALSE,
     activate |-> "none", pending |-> {}, deleted |-> {}, claimed |-> FALSE]

\* What cache.addAll and cache.add store for a URL they fetched.
FreshResp == [status |-> 200, body |-> 1]

\* The install listener: waitUntil(caches.open(CACHE_ASSETS).then(...)), then
\* self.skipWaiting().
InstallEvent ==
    /\ sw.state = "parsed"
    /\ sw' = [sw EXCEPT !.state = "installing", !.install = "open", !.skipWaiting = TRUE]
    /\ UNCHANGED <<storageVars, fe, pageVars, count>>

\* InstallOpened where caches.open does not create the group.
InstallOpened_Lazy(ok) ==
    /\ sw.install = "open"
    /\ IF ok
       THEN /\ cacheKeys' = cacheKeys
            /\ sw' = [sw EXCEPT !.install = "addAll", !.cacheLive = TRUE]
       ELSE /\ cacheKeys' = cacheKeys
            /\ sw' = [sw EXCEPT !.install = "rejected", !.state = "redundant"]
    /\ UNCHANGED <<cacheData, fe, pageVars, count>>

\* install: caches.open(CACHE_ASSETS) settles. A rejection rejects the promise
\* given to waitUntil, and the browser discards the worker.
InstallOpened(ok) ==
    /\ sw.install = "open"
    /\ IF ok
       THEN /\ cacheKeys' = KeysAfterOpen(CACHE_ASSETS)
            /\ sw' = [sw EXCEPT !.install = "addAll", !.cacheLive = TRUE]
       ELSE /\ cacheKeys' = cacheKeys
            /\ sw' = [sw EXCEPT !.install = "rejected", !.state = "redundant"]
    /\ UNCHANGED <<cacheData, fe, pageVars, count>>

\* cache.addAll(urls) with `fetched` the URLs whose fetch gave an ok response:
\* it stores all of them or, when one fetch failed, rejects and stores none.
AddAllStores(urls, fetched) == IF urls \subseteq fetched THEN urls ELSE {}

\* install: cache.addAll(ASSETS_TO_CACHE) settles; its rejection is caught and
\* logged, so the promise given to waitUntil is fulfilled either way.
InstallAddAllSettled(fetched) ==
    /\ sw.install = "addAll"
    /\ cacheData' =
         IF sw.cacheLive
         THEN [cacheData EXCEPT ![CACHE_ASSETS] =
                 [p \in Paths |-> IF p \in AddAllStores(Manifest, fetched)
                                  THEN FreshResp ELSE @[p]]]
         ELSE cacheData
    /\ sw' = [sw EXCEPT !.install = "fulfilled", !.state = "installed",
                        !.fetched = fetched,
                        !.stored = AddAllStores(Manifest, fetched),
                        !.logged = (AddAllStores(Manifest, fetched) # Manifest)]
    /\ UNCHANGED <<cacheKeys, fe, pageVars, count>>

\* ActivateDeletes that keeps the assets group only.
ActivateDeletes_NotAssets(cacheName) == cacheName # CACHE_ASSETS

\* The condition under which the activate listener deletes a group.
ActivateDeletes(cacheName) ==
    /\ cacheName # CACHE_ASSETS
    /\ cacheName # CACHE_PAGES
    /\ ~Includes(cacheName, "dramamu")

\* The activate listener: waitUntil(caches.keys().then(...)), then
\* self.clients.claim(). The worker was told to skip waiting at install.
ActivateEvent ==
    /\ sw.state = "installed"
    /\ sw.skipWaiting
    /\ sw' = [sw EXCEPT !.state = "activating", !.activate = "keys", !.claimed = TRUE]
    /\ UNCHANGED <<storageVars, fe, pageVars, count>>

\* activate: caches.keys() settles; caches.delete is called for every name the
\* condition selects and Promise.all waits for them. The worker becomes active
\* when the promise given to waitUntil settles, fulfilled or rejected.
ActivateKeysSettled(ok) ==
    /\ sw.activate = "keys"
    /\ sw' = IF ~ok
             THEN [sw EXCEPT !.activate = "rejected", !.state = "activated"]
             ELSE IF {n \in KeySet : ActivateDeletes(n)} = {}
             THEN [sw EXCEPT !.activate = "fulfilled", !.state = "activated"]
             ELSE [sw EXCEPT !.activate = "deleting",
                             !.pending = {n \in KeySet : ActivateDeletes(n)}]
    /\ UNCHANGED <<storageVars, fe, pageVars, count>>

\* activate: one caches.delete(cacheName) settles. Promise.all rejects at the
\* first rejection and is fulfilled when every delete is.
ActivateDeleteSettled(n, ok) ==
    /\ n \in sw.pending
    /\ cacheKeys' = IF ok THEN Without(cacheKeys, n) ELSE cacheKeys
    /\ cacheData' = IF ok THEN [cacheData EXCEPT ![n] = EmptyCache] ELSE cacheData
    /\ sw' = [sw EXCEPT
                !.pending = @ \ {n},
                !.deleted = IF ok THEN @ \cup {n} ELSE @,
                !.activate = IF sw.activate # "deleting" THEN @
                             ELSE IF ~ok THEN "rejected"
                             ELSE IF sw.pending = {n} THEN "fulfilled" ELSE @,
                !.state = IF sw.activate = "deleting" /\ (~ok \/ sw.pending = {n})
                          THEN "activated" ELSE @]
    /\ UNCHANGED <<fe, pageVars, count>>

\* ------------------------------------------------- page: the CacheManager
IdleTab ==
    [state |-> "none", version |-> 0, updateInterval |-> 0, timer |-> FALSE,
     reg |-> "none", decided |-> "none", seen |-> 0, before |-> {}, calls |-> <<>>,
     purge |-> "none", listed |-> {}, pending |-> {}, deleted |-> {},
     cleaned |-> FALSE, order |-> 0]

\* ClearDeletes without the test of the name: every group is stale.
ClearDeletes_All(cacheName) == cacheName = cacheName

\* ClearDeletes that spares the two groups of the current version only.
ClearDeletes_OtherVersion(cacheName) == cacheName \notin {CACHE_ASSETS, CACHE_PAGES}

\* The condition under which clearOldCaches deletes a group.
ClearDeletes(cacheName) == ~Includes(cacheName, "dramamu")

\* VersionChanged that is true on the first run only (no marker stored yet).
VersionChanged_FirstRunOnly(storedVersion, version) == storedVersion = 0

\* VersionChanged that is true whatever the marker is.
VersionChanged_Always(storedVersion, version) == storedVersion = storedVersion

\* checkCacheVersion's test.
VersionChanged(storedVersion, version) == storedVersion # version

\* A tab is free before its first page and once its page is gone: it was
\* unloaded (cleanup ran) and nothing it started is still in flight.
FreeTab(t) ==
    \/ tab[t].state = "none"
    \/ /\ tab[t].cleaned
       /\ tab[t].reg # "pending"
       /\ tab[t].purge \notin {"keys", "deleting"}
       /\ tab[t].pending = {}

\* Construct with checkCacheVersion() called inside the branch that registers
\* the worker.
Construct_NeedsWorker(t, v) ==
    /\ count.loads < MaxLoads
    /\ FreeTab(t)
    /\ \A u \in Tabs : u < t => ~FreeTab(u)
    /\ count' = [count EXCEPT !.loads = @ + 1]
    /\ tab' = [tab EXCEPT ![t] =
                 [IdleTab EXCEPT !.state = "constructed",
                           !.version = v,
                           !.order = count.loads + 1,
                           !.reg = IF env.serviceWorker THEN "pending" ELSE "unsupported",
                           !.seen = marker,
                           !.before = KeySet,
                           !.decided = IF ~env.serviceWorker THEN "none"
                                        ELSE IF VersionChanged(marker, v) THEN "purge"
                                        ELSE "keep",
                           !.calls = IF ~env.serviceWorker THEN <<>>
                                     ELSE <<"register", "getItem">>
                                          \o (IF VersionChanged(marker, v)
                                              THEN (IF env.caches THEN <<"keys">> ELSE <<>>)
                                                   \o <<"setItem">>
                                              ELSE <<>>),
                           !.purge = IF env.serviceWorker /\ VersionChanged(marker, v) /\ env.caches
                                     THEN "keys" ELSE "none"]]
    /\ marker' = IF env.serviceWorker /\ VersionChanged(marker, v) THEN v ELSE marker
    /\ UNCHANGED <<storageVars, fe, sw, fr, pre, env>>

\* Construct with checkCacheVersion() called before the worker is registered.
Construct_CheckFirst(t, v) ==
    /\ count.loads < MaxLoads
    /\ FreeTab(t)
    /\ \A u \in Tabs : u < t => ~FreeTab(u)
    /\ count' = [count EXCEPT !.loads = @ + 1]
    /\ tab' = [tab EXCEPT ![t] =
                 [IdleTab EXCEPT !.state = "constructed",
                           !.version = v,
                           !.order = count.loads + 1,
                           !.reg = IF env.serviceWorker THEN "pending" ELSE "unsupported",
                           !.seen = marker,
                           !.before = KeySet,
                           !.decided = IF VersionChanged(marker, v) THEN "purge" ELSE "keep",
                           !.calls = <<"getItem">>
                                     \o (IF VersionChanged(marker, v)
                                         THEN (IF env.caches THEN <<"keys">> ELSE <<>>)
                                              \o <<"setItem">>
                                         ELSE <<>>)
                                     \o (IF env.serviceWorker THEN <<"register">> ELSE <<>>),
                           !.purge = IF VersionChanged(marker, v) /\ env.caches
                                     THEN "keys" ELSE "none"]]
    /\ marker' = IF VersionChanged(marker, v) THEN v ELSE marker
    /\ UNCHANGED <<storageVars, fe, sw, fr, pre, env>>

\* Construct whose checkCacheVersion() writes the marker without calling
\* clearOldCaches().
Construct_WriteOnly(t, v) ==
    /\ count.loads < MaxLoads
    /\ FreeTab(t)
    /\ \A u \in Tabs : u < t => ~FreeTab(u)
    /\ count' = [count EXCEPT !.loads = @ + 1]
    /\ tab' = [tab EXCEPT ![t] =
                 [IdleTab EXCEPT !.state = "constructed",
                           !.version = v,
                           !.order = count.loads + 1,
                           !.reg = IF env.serviceWorker THEN "pending" ELSE "unsupported",
                           !.seen = marker,
                           !.before = KeySet,
                           !.decided = IF VersionChanged(marker, v) THEN "purge" ELSE "keep",
                           !.calls = (IF env.serviceWorker THEN <<"register">> ELSE <<>>)
                                     \o <<"getItem">>
                                     \o (IF VersionChanged(marker, v)
                                         THEN <<"setItem">> ELSE <<>>),
                           !.purge = "none"]]
    /\ marker' = IF VersionChanged(marker, v) THEN v ELSE marker
    /\ UNCHANGED <<storageVars, fe, sw, fr, pre, env>>

\* new CacheManager(): the constructor and init() run to completion. init()
\* calls navigator.serviceWorker.register when the browser has service workers,
\* then checkCacheVersion(): on a changed version clearOldCaches() calls
\* caches.keys() (when the browser has caches) and the marker is written.
\* `order` numbers the page loads; `calls` lists the calls in the order made.
Construct(t, v) ==
    /\ count.loads < MaxLoads
    /\ FreeTab(t)
    /\ \A u \in Tabs : u < t => ~FreeTab(u)
    /\ count' = [count EXCEPT !.loads = @ + 1]
    /\ tab' = [tab EXCEPT ![t] =
                 [IdleTab EXCEPT !.state = "constructed",
                           !.version = v,
                           !.order = count.loads + 1,
                           !.reg = IF env.serviceWorker THEN "pending" ELSE "unsupported",
                           !.seen = marker,
                           !.before = KeySet,
                           !.decided = IF VersionChanged(marker, v) THEN "purge" ELSE "keep",
                           !.calls = (IF env.serviceWorker THEN <<"register">> ELSE <<>>)
                                     \o <<"getItem">>
                                     \o (IF VersionChanged(marker, v)
                                         THEN (IF env.caches THEN <<"keys">> ELSE <<>>)
                                              \o <<"setItem">>
                                         ELSE <<>>),
                           !.purge = IF VersionChanged(marker, v) /\ env.caches
                                     THEN "keys" ELSE "none"]]
    /\ marker' = IF VersionChanged(marker, v) THEN v ELSE marker
    /\ UNCHANGED <<storageVars, fe, sw, fr, pre, env>>

\* init(): the promise of register() settles; on success the 24-hour interval
\* is set, on failure the error is logged.
RegisterSettled(t, ok) ==
    /\ tab[t].reg = "pending"
    /\ tab' = [tab EXCEPT ![t] =
                 IF ok
                 THEN [@ EXCEPT !.reg = "registered", !.updateInterval = t, !.timer = TRUE]
                 ELSE [@ EXCEPT !.reg = "failed"]]
    /\ UNCHANGED <<storageVars, fe, sw, marker, fr, pre, env, count>>

\* cleanup(), called by the beforeunload and by the pagehide listener.
Cleanup(t) ==
    /\ tab[t].state = "constructed"
    /\ tab' = [tab EXCEPT ![t] =
                 IF @.updateInterval # 0
                 THEN [@ EXCEPT !.timer = FALSE, !.updateInterval = 0, !.cleaned = TRUE]
                 ELSE [@ EXCEPT !.cleaned = TRUE]]
    /\ UNCHANGED <<storageVars, fe, sw, marker, fr, pre, env, count>>

\* clearOldCaches(): caches.keys() settles; caches.delete is called (and
\* 'Deleted old cache' logged) for every name the condition selects. Nothing
\* catches a rejection of keys().
PurgeKeysSettled(t, ok) ==
    /\ tab[t].purge = "keys"
    /\ tab' = [tab EXCEPT ![t] =
                 IF ~ok THEN [@ EXCEPT !.purge = "failed"]
                 ELSE [@ EXCEPT !.listed = KeySet,
                                !.pending = {n \in KeySet : ClearDeletes(n)},
                                !.purge = IF {n \in KeySet : ClearDeletes(n)} = {}
                                          THEN "done" ELSE "deleting"]]
    /\ UNCHANGED <<storageVars, fe, sw, marker, fr, pre, env, count>>

\* PurgeDeleteSettled where a fulfilled caches.delete leaves the group in place.
PurgeDeleteSettled_NoEffect(t, n, ok) ==
    /\ n \in tab[t].pending
    /\ cacheKeys' = cacheKeys
    /\ cacheData' = cacheData
    /\ tab' = [tab EXCEPT ![t] =
                 [@ EXCEPT !.pending = @ \ {n},
                           !.deleted = IF ok THEN @ \cup {n} ELSE @,
                           !.purge = IF ~ok THEN "failed"
                                     ELSE IF tab[t].pending = {n} /\ @ = "deleting"
                                     THEN "done" ELSE @]]
    /\ UNCHANGED <<fe, sw, marker, fr, pre, env, count>>

\* clearOldCaches(): one caches.delete(cacheName) settles; nothing awaits it.
PurgeDeleteSettled(t, n, ok) ==
    /\ n \in tab[t].pending
    /\ cacheKeys' = IF ok THEN Without(cacheKeys, n) ELSE cacheKeys
    /\ cacheData' = IF ok THEN [cacheData EXCEPT ![n] = EmptyCache] ELSE cacheData
    /\ tab' = [tab EXCEPT ![t] =
                 [@ EXCEPT !.pending = @ \ {n},
                           !.deleted = IF ok THEN @ \cup {n} ELSE @,
                           !.purge = IF ~ok THEN "failed"
                                     ELSE IF tab[t].pending = {n} /\ @ = "deleting"
                                     THEN "done" ELSE @]]
    /\ UNCHANGED <<fe, sw, marker, fr, pre, env, count>>

\* ------------------------------------------------ page: forceRefresh()
IdleRefresh ==
    [pc |-> "none", pending |-> {}, deleted |-> {}, reloaded |-> FALSE,
     keysAtReload |-> {}]

\* CacheManager.forceRefresh(): calls caches.keys() when the browser has
\* caches, and then, in the same turn, location.reload(true).
ForceRefresh ==
    /\ fr.pc = "none"
    /\ fr' = [fr EXCEPT !.pc = IF env.caches THEN "keys" ELSE "unsupported",
                        !.reloaded = TRUE,
                        !.keysAtReload = KeySet]
    /\ UNCHANGED <<storageVars, fe, sw, marker, tab, pre, env, count>>

\* forceRefresh: caches.keys() settles and caches.delete is called for every
\* name.
ForceRefreshKeysSettled(ok) ==
    /\ fr.pc = "keys"
    /\ fr' = IF ~ok THEN [fr EXCEPT !.pc = "failed"]
             ELSE [fr EXCEPT !.pending = KeySet,
                             !.pc = IF KeySet = {} THEN "done" ELSE "deleting"]
    /\ UNCHANGED <<storageVars, fe, sw, marker, tab, pre, env, count>>

\* forceRefresh: the reload unloads the document before keys() has settled, and
\* the callback that would delete the groups never runs.
ForceRefreshUnloaded ==
    /\ fr.pc = "keys"
    /\ fr' = [fr EXCEPT !.pc = "unloaded"]
    /\ UNCHANGED <<storageVars, fe, sw, marker, tab, pre, env, count>>

\* forceRefresh: one caches.delete(cacheName) settles. A group that is dropped
\* takes with it the writes in flight through Cache objects opened on it.
ForceRefreshDeleteSettled(n, ok) ==
    /\ n \in fr.pending
    /\ cacheKeys' = IF ok THEN Without(cacheKeys, n) ELSE cacheKeys
    /\ cacheData' = IF ok THEN [cacheData EXCEPT ![n] = EmptyCache] ELSE cacheData
    /\ fe' = IF ok /\ n \in KeySet THEN DetachPuts({n}) ELSE fe
    /\ sw' = IF ok /\ n \in KeySet /\ n = CACHE_ASSETS
             THEN [sw EXCEPT !.cacheLive = FALSE] ELSE sw
    /\ pre' = IF ok /\ n \in KeySet /\ n = CACHE_ASSETS
              THEN [pre EXCEPT !.live = FALSE] ELSE pre
    /\ fr' = [fr EXCEPT !.pending = @ \ {n},
                        !.deleted = IF ok THEN @ \cup {n} ELSE @,
                        !.pc = IF ~ok THEN "failed"
                               ELSE IF fr.pending = {n} /\ @ = "deleting"
                               THEN "done" ELSE @]
    /\ UNCHANGED <<marker, tab, env, count>>

\* ------------------------------------------- page: precacheAssets(urls)
IdlePrecache ==
    [pc |-> "none", urls |-> <<>>, pending |-> {}, added |-> {}, failed |-> {},
     live |-> FALSE]

\* The URL lists precacheAssets is called with.
PrecacheUrls == {PathCss, PathImg}
RECURSIVE ListsUpTo(_)
ListsUpTo(n) ==
    IF n = 0 THEN {<<>>}
    ELSE ListsUpTo(n - 1) \cup
         {Append(l, u) : l \in {m \in ListsUpTo(n - 1) : Len(m) = n - 1}, u \in PrecacheUrls}
UrlLists == ListsUpTo(MaxUrls)

\* CacheManager.precacheAssets(urls): calls caches.open(CACHE_ASSETS) when the
\* browser has service workers and caches, and returns.
Precache(urls) ==
    /\ pre.pc = "none"
    /\ pre' = [pre EXCEPT !.urls = urls,
                          !.pc = IF env.serviceWorker /\ env.caches
                                 THEN "open" ELSE "unsupported"]
    /\ UNCHANGED <<storageVars, fe, sw, marker, tab, fr, env, count>>

\* precacheAssets: caches.open settles; on success cache.add(url) is called
\* for every url of the list, each with its own catch. Nothing catches a
\* rejection of open().
PrecacheOpened(ok) ==
    /\ pre.pc = "open"
    /\ cacheKeys' = IF ok THEN KeysAfterOpen(CACHE_ASSETS) ELSE cacheKeys
    /\ pre' = IF ~ok THEN [pre EXCEPT !.pc = "failed"]
              ELSE [pre EXCEPT !.live = TRUE,
                               !.pending = DOMAIN pre.urls,
                               !.pc = IF pre.urls = <<>> THEN "settled" ELSE "adding"]
    /\ UNCHANGED <<cacheData, fe, sw, marker, tab, fr, env, count>>

\* PrecacheAddSettled where the first failure ends the batch, as a rejected
\* cache.addAll or Promise.all would.
PrecacheAddSettled_Abort(i, ok) ==
    /\ i \in pre.pending
    /\ cacheData' = IF ok /\ pre.live
                    THEN [cacheData EXCEPT ![CACHE_ASSETS][pre.urls[i]] = FreshResp]
                    ELSE cacheData
    /\ pre' = [pre EXCEPT !.pending = IF ok THEN @ \ {i} ELSE {},
                          !.added = IF ok THEN @ \cup {i} ELSE @,
                          !.failed = IF ok THEN @ ELSE @ \cup {i},
                          !.pc = IF pre.pending = {i} \/ ~ok THEN "settled" ELSE @]
    /\ UNCHANGED <<cacheKeys, fe, sw, marker, tab, fr, env, count>>

\* precacheAssets: cache.add(urls[i]) settles: the URL was fetched and stored,
\* or the fetch or the write failed and the catch logged it.
PrecacheAddSettled(i, ok) ==
    /\ i \in pre.pending
    /\ cacheData' = IF ok /\ pre.live
                    THEN [cacheData EXCEPT ![CACHE_ASSETS][pre.urls[i]] = FreshResp]
                    ELSE cacheData
    /\ pre' = [pre EXCEPT !.pending = @ \ {i},
                          !.added = IF ok THEN @ \cup {i} ELSE @,
                          !.failed = IF ok THEN @ ELSE @ \cup {i},
                          !.pc = IF pre.pending = {i} THEN "settled" ELSE @]
    /\ UNCHANGED <<cacheKeys, fe, sw, marker, tab, fr, env, count>>

\* ------------------------------------------------------------ initial states
\* What CacheStorage may hold when a run starts.
InitialEntries(name) ==
    IF name = CACHE_PAGES THEN [EmptyCache EXCEPT ![PathHome] = StaleResp]
    ELSE IF name = ForeignCache
    THEN [EmptyCache EXCEPT ![PathHome] = StaleResp, ![PathCss] = StaleResp]
    ELSE [EmptyCache EXCEPT ![PathCss] = StaleResp]
InitialKeyLists ==
    { <<>>,
      <<CACHE_ASSETS, CACHE_PAGES>>,
      <<ForeignCache, OldProductCache, CACHE_PAGES>> }

InitStorage ==
    /\ cacheKeys \in InitialKeyLists
    /\ cacheData = [n \in GroupNames |->
                        IF n \in KeySet THEN InitialEntries(n) ELSE EmptyCache]

\* A worker that went through install and activate before the run starts.
ActiveWorker ==
    [IdleWorker EXCEPT !.state = "activated", !.skipWaiting = TRUE,
                       !.install = "fulfilled", !.activate = "fulfilled",
                       !.claimed = TRUE]

InitFetch ==
    /\ InitStorage
    /\ fe = [r \in Slots |-> IdleFetch]
    /\ sw = ActiveWorker
    /\ marker = 0
    /\ tab = [t \in Tabs |-> IdleTab]
    /\ fr = IdleRefresh
    /\ pre = IdlePrecache
    /\ env = [serviceWorker |-> TRUE, caches |-> TRUE]
    /\ count = NoCount

\* The worker handles fetch events.
NextFetch ==
    \/ \E r \in Slots, q \in Requests : FetchEvent(r, q)
    \/ \E r \in Slots, out \in NetOutcomes : NetworkFirstFetched(r, out)
    \/ \E r \in Slots, ok \in BOOLEAN : NetworkFirstOpened(r, ok)
    \/ \E r \in Slots, ok \in BOOLEAN : NetworkFirstMatched(r, ok)
    \/ \E r \in Slots, ok \in BOOLEAN : CacheFirstMatched(r, ok)
    \/ \E r \in Slots, out \in NetOutcomes : CacheFirstFetched(r, out)
    \/ \E r \in Slots, ok \in BOOLEAN : CacheFirstOpened(r, ok)
    \/ \E r \in Slots, ok \in BOOLEAN : CachePutSettled(r, ok)

SpecFetch == InitFetch /\ [][NextFetch]_vars

\* A freshly registered worker goes through install and activate.
InitWorker ==
    /\ InitStorage
    /\ fe = [r \in Slots |-> IdleFetch]
    /\ sw = IdleWorker
    /\ marker = 0
    /\ tab = [t \in Tabs |-> IdleTab]
    /\ fr = IdleRefresh
    /\ pre = IdlePrecache
    /\ env = [serviceWorker |-> TRUE, caches |-> TRUE]
    /\ count = NoCount

NextWorker ==
    \/ InstallEvent
    \/ \E ok \in BOOLEAN : InstallOpened(ok)
    \/ \E fetched \in SUBSET Manifest : InstallAddAllSettled(fetched)
    \/ ActivateEvent
    \/ \E ok \in BOOLEAN : ActivateKeysSettled(ok)
    \/ \E n \in GroupNames, ok \in BOOLEAN : ActivateDeleteSettled(n, ok)

SpecWorker == InitWorker /\ [][NextWorker]_vars

\* Pages load, construct their CacheManager, and unload.
InitPage ==
    /\ InitStorage
    /\ fe = [r \in Slots |-> IdleFetch]
    /\ sw = ActiveWorker
    /\ marker \in {0} \cup Tokens
    /\ tab = [t \in Tabs |-> IdleTab]
    /\ fr = IdleRefresh
    /\ pre = IdlePrecache
    /\ env \in [serviceWorker : BOOLEAN, caches : BOOLEAN]
    /\ count = NoCount

NextPage ==
    \/ \E t \in Tabs, v \in Tokens : Construct(t, v)
    \/ \E t \in Tabs, ok \in BOOLEAN : RegisterSettled(t, ok)
    \/ \E t \in Tabs : Cleanup(t)
    \/ \E t \in Tabs, ok \in BOOLEAN : PurgeKeysSettled(t, ok)
    \/ \E t \in Tabs, n \in GroupNames, ok \in BOOLEAN : PurgeDeleteSettled(t, n, ok)

SpecPage == InitPage /\ [][NextPage]_vars

\* precacheAssets(urls) is called on a page.
InitPrecache ==
    /\ InitStorage
    /\ fe = [r \in Slots |-> IdleFetch]
    /\ sw = ActiveWorker
    /\ marker = 0
    /\ tab = [t \in Tabs |-> IdleTab]
    /\ fr = IdleRefresh
    /\ pre = IdlePrecache
    /\ env \in [serviceWorker : BOOLEAN, caches : BOOLEAN]
    /\ count = NoCount

NextPrecache ==
    \/ \E urls \in UrlLists : Precache(urls)
    \/ \E ok \in BOOLEAN : PrecacheOpened(ok)
    \/ \E i \in 1 .. MaxUrls, ok \in BOOLEAN : PrecacheAddSettled(i, ok)

SpecPrecache == InitPrecache /\ [][NextPrecache]_vars

\* forceRefresh() is called on a page while the worker handles a fetch event
\* (the reloaded document's, or one already under way).
NextRefresh ==
    \/ \E q \in Requests : FetchEvent(1, q)
    \/ \E out \in NetOutcomes : NetworkFirstFetched(1, out)
    \/ \E ok \in BOOLEAN : NetworkFirstOpened(1, ok)
    \/ \E ok \in BOOLEAN : NetworkFirstMatched(1, ok)
    \/ \E ok \in BOOLEAN : CacheFirstMatched(1, ok)
    \/ \E out \in NetOutcomes : CacheFirstFetched(1, out)
    \/ \E ok \in BOOLEAN : CacheFirstOpened(1, ok)
    \/ \E ok \in BOOLEAN : CachePutSettled(1, ok)
    \/ ForceRefresh
    \/ \E ok \in BOOLEAN : ForceRefreshKeysSettled(ok)
    \/ ForceRefreshUnloaded
    \/ \E n \in GroupNames, ok \in BOOLEAN : ForceRefreshDeleteSettled(n, ok)

SpecRefresh == InitFetch /\ [][NextRefresh]_vars

\* A new worker version installs and activates over the groups an earlier
\* deploy left, and then handles fetch events.
NextUpgrade ==
    \/ InstallEvent
    \/ \E ok \in BOOLEAN : InstallOpened(ok)
    \/ \E fetched \in SUBSET Manifest : InstallAddAllSettled(fetched)
    \/ ActivateEvent
    \/ \E ok \in BOOLEAN : ActivateKeysSettled(ok)
    \/ \E n \in GroupNames, ok \in BOOLEAN : ActivateDeleteSettled(n, ok)
    \/ \E q \in Requests : FetchEvent(1, q)
    \/ \E out \in NetOutcomes : NetworkFirstFetched(1, out)
    \/ \E ok \in BOOLEAN : NetworkFirstOpened(1, ok)
    \/ \E ok \in BOOLEAN : NetworkFirstMatched(1, ok)
    \/ \E ok \in BOOLEAN : CacheFirstMatched(1, ok)
    \/ \E out \in NetOutcomes : CacheFirstFetched(1, out)
    \/ \E ok \in BOOLEAN : CacheFirstOpened(1, ok)
    \/ \E ok \in BOOLEAN : CachePutSettled(1, ok)

SpecUpgrade == InitWorker /\ [][NextUpgrade]_vars

\* =================================================================== claims
Done(r) == fe[r].pc = "done"
NetworkResult(r) == [via |-> "network", resp |-> fe[r].response]

\* C1 as stated: a document request whose fetch gave a 500 while a cached 200
\* entry exists is answered with the cached 200.
C1_Stale200On500 ==
    \A r \in Slots :
        ( /\ Done(r)
          /\ fe[r].class = "document"
          /\ fe[r].response.status = 500
          /\ Match(fe[r].request.path).status = 200 )
        => (fe[r].result.via = "cache" /\ fe[r].result.resp.status = 200)

\* C1 amended: network-first answers a 500 from the network with that 500,
\* without looking into the caches; it answers from the cache (a stored 200)
\* when fetch itself failed and the lookup found an entry.
C1_500IsReturned ==
    \A r \in Slots :
        (Done(r) /\ fe[r].strategy = "networkFirst") =>
            /\ fe[r].response.status = 500 =>
                   (fe[r].result = NetworkResult(r) /\ fe[r].lookup = "none")
            /\ (fe[r].net = "error" /\ fe[r].lookup = "hit") =>
                   (fe[r].result.via = "cache" /\ fe[r].result.resp.status = 200)

C1_Witness ==
    \E r \in Slots :
        /\ Done(r)
        /\ fe[r].class = "document"
        /\ fe[r].response.status = 500
        /\ Match(fe[r].request.path).status = 200
        /\ fe[r].result.resp.status = 500

\* C4: the promise a strategy hands to respondWith never rejects, whatever
\* fails in the network and in CacheStorage.
C4_NeverRejects ==
    \A r \in Slots : fe[r].result.via # "rejected"

C6_HitStep(r) ==
    (fe[r].pc = "cf_match" /\ fe'[r].lookup = "hit") =>
        /\ fe'[r].pc = "done"
        /\ fe'[r].result = [via |-> "cache", resp |-> Match(fe[r].request.path)]
        /\ fe'[r].net = "none"
        /\ cacheKeys' = cacheKeys
        /\ cacheData' = cacheData
C6_HitState(r) ==
    (fe[r].strategy = "cacheFirst" /\ fe[r].lookup = "hit") =>
        /\ Done(r)
        /\ fe[r].class \in {"static-asset", "image"}
        /\ fe[r].result.via = "cache"
        /\ fe[r].net = "none"
        /\ fe[r].opened = "none"
        /\ fe[r].put = "none"
C6_CacheFirstHitIsSilent ==
    /\ [](\A r \in Slots : C6_HitState(r))
    /\ [][\A r \in Slots : C6_HitStep(r)]_vars

C6_Witness ==
    \E r \in Slots :
        /\ Done(r)
        /\ fe[r].class = "image"
        /\ fe[r].lookup = "hit"
        /\ fe[r].result.resp.body # 0

\* C7: a request whose fetch failed and for which no cache entry was found is
\* answered with a 503, and the synthetic 503 is returned in that case only.
C7_Offline503 ==
    \A r \in Slots :
        Done(r) =>
            /\ (fe[r].net = "error" /\ fe[r].lookup = "miss") =>
                   fe[r].result.resp.status = 503
            /\ fe[r].result.via = "synthetic" =>
                   (fe[r].net = "error" /\ fe[r].lookup = "miss")

\* C2 as stated: when the marker was A and a page initializes with B # A, the
\* purge removes every cache group that existed before that initialization.
C2_PurgeRemovesEveryGroup ==
    \A t \in Tabs :
        ( /\ tab[t].seen \in Tokens
          /\ tab[t].seen # tab[t].version
          /\ tab[t].purge = "done" )
        => tab[t].before \cap KeySet = {}

\* C2 amended: once that purge has enumerated and deleted without a failure,
\* the groups that existed before the initialization and whose name lacks
\* 'dramamu' are gone, and those whose name has it (the product's, of this and
\* of older versions) all remain.
C2_PurgeKeepsProductGroups ==
    \A t \in Tabs :
        ( /\ tab[t].seen \in Tokens
          /\ tab[t].seen # tab[t].version
          /\ tab[t].purge = "done" )
        => \A n \in tab[t].before :
               n \in KeySet <=> (\E i \in DOMAIN n : n[i] = "dramamu")

C2_Witness ==
    \E t \in Tabs :
        /\ tab[t].seen \in Tokens
        /\ tab[t].seen # tab[t].version
        /\ tab[t].purge = "done"
        /\ ForeignCache \in tab[t].deleted
        /\ CACHE_PAGES \in tab[t].before \cap KeySet

\* C3: when install has finished, it has stored exactly the manifest URLs
\* whose fetch succeeded, and the install step was not failed by an error.
C3_InstallStoresFetched ==
    sw.state \in {"installed", "activating", "activated"} =>
        /\ sw.install = "fulfilled"
        /\ sw.stored = sw.fetched

\* C8: once the activate step has completed (caches.keys() and every delete it
\* called fulfilled), every cache group is the current assets group, the
\* current pages group or has 'dramamu' in its name; and activate never
\* deletes the current assets or pages group.
C8_ActivateLeavesProductOnly ==
    /\ sw.activate = "fulfilled" =>
           \A n \in KeySet :
               \/ n = CACHE_ASSETS
               \/ n = CACHE_PAGES
               \/ \E i \in DOMAIN n : n[i] = "dramamu"
    /\ CACHE_ASSETS \notin sw.pending \cup sw.deleted
    /\ CACHE_PAGES \notin sw.pending \cup sw.deleted

C8_Witness ==
    /\ sw.activate = "fulfilled"
    /\ sw.state = "activated"
    /\ ForeignCache \in sw.deleted
    /\ {CACHE_ASSETS, CACHE_PAGES} \subseteq KeySet

\* C9: when forceRefresh issues the reload no cache group exists, and the
\* reloaded document is not answered from a cache.
C9_ReloadFindsNoGroup ==
    /\ fr.reloaded => fr.keysAtReload = {}
    /\ \A r \in Slots :
           (fe[r].afterReload /\ fe[r].class = "document") => fe[r].result.via # "cache"

\* C10: when precacheAssets has settled, cache.add was tried for every URL of
\* the list, whichever of them failed, and the assets group holds every URL
\* whose add succeeded; a failure to open the group is a rejection nobody
\* handles, not an error of the call.
C10_PrecacheNeverAborts ==
    /\ pre.pc = "settled" =>
           /\ pre.added \cup pre.failed = DOMAIN pre.urls
           /\ pre.added \cap pre.failed = {}
           /\ \A i \in pre.added : cacheData[CACHE_ASSETS][pre.urls[i]] # NoResp
           /\ pre.added # {} => CACHE_ASSETS \in KeySet
    /\ pre.pc \in {"adding", "settled"} =>
           \A i \in DOMAIN pre.urls : i \in pre.pending \cup pre.added \cup pre.failed

C10_Witness ==
    /\ pre.pc = "settled"
    /\ pre.added # {}
    /\ pre.failed # {}
    /\ \E i \in pre.failed : \E j \in pre.added : i < j

\* Whether the initialize of page t made the call.
Called(t, call) == \E i \in DOMAIN tab[t].calls : tab[t].calls[i] = call

\* The page whose version check is the most recent one.
LastDecider(t) == tab[t].decided # "none" /\ tab[t].order = count.loads

\* C11: once a page's version check has run, the marker equals the token of
\* the page whose check ran last, whatever the other pages and their purges
\* are doing.
C11_MarkerIsLastToken ==
    /\ \A t \in Tabs : LastDecider(t) => marker = tab[t].version
    /\ count.loads > 0 => \E t \in Tabs : LastDecider(t)

C11_Witness ==
    \E t \in Tabs : \E u \in Tabs :
        /\ LastDecider(t)
        /\ tab[u].decided = "purge"
        /\ tab[u].order < tab[t].order
        /\ tab[u].version # tab[t].version
        /\ tab[u].purge = "deleting"
        /\ tab[t].seen = tab[u].version
        /\ marker = tab[t].version

\* C12: the version check writes the marker and starts the purge exactly when
\* the marker it read is absent or differs from the page's token; when the
\* marker equals the token it writes nothing and deletes no cache group.
C12_WriteIffChanged ==
    \A t \in Tabs :
        tab[t].decided # "none" =>
            /\ Called(t, "setItem") <=> (tab[t].seen = 0 \/ tab[t].seen # tab[t].version)
            /\ tab[t].decided = "purge" <=> (tab[t].seen = 0 \/ tab[t].seen # tab[t].version)
            /\ (tab[t].decided = "purge" /\ env.caches) =>
                   (Called(t, "keys") /\ tab[t].purge # "none")
            /\ tab[t].seen = tab[t].version =>
                   /\ ~Called(t, "keys")
                   /\ tab[t].purge = "none"
                   /\ tab[t].pending = {}
                   /\ tab[t].deleted = {}

C12_Witness ==
    \E t \in Tabs :
        /\ tab[t].decided = "keep"
        /\ tab[t].seen = tab[t].version
        /\ tab[t].calls = <<"register", "getItem">>
        /\ ForeignCache \in KeySet
        /\ env.caches

\* A name that contains the product namespace token.
ProductName(n) == \E i \in DOMAIN n : n[i] = "dramamu"

\* C13: a purge that enumerates the groups after another purge has completed,
\* with nothing stored in between, selects no group, deletes nothing and
\* leaves the set of groups as the first purge left it.
C13_SecondStep(t, u) ==
    ( /\ tab[t].purge = "done"
      /\ tab[u].purge = "keys"
      /\ tab'[u].purge \notin {"keys", "failed"} )
    => /\ tab'[u].purge = "done"
       /\ tab'[u].pending = {}
       /\ tab'[u].listed = {n \in tab[t].listed : n \notin tab[t].deleted}
       /\ cacheKeys' = cacheKeys
C13_SecondState(u) ==
    (\A n \in tab[u].listed : ProductName(n)) =>
        (tab[u].pending = {} /\ tab[u].deleted = {})
C13_PurgeIdempotent ==
    /\ [](\A u \in Tabs : C13_SecondState(u))
    /\ [][\A t \in Tabs : \A u \in Tabs \ {t} : C13_SecondStep(t, u)]_vars

C13_Witness ==
    \E t \in Tabs : \E u \in Tabs :
        /\ tab[t].order < tab[u].order
        /\ tab[t].purge = "done"
        /\ tab[t].deleted # {}
        /\ tab[u].decided = "purge"
        /\ tab[u].purge = "done"
        /\ tab[u].listed = {n \in tab[t].listed : n \notin tab[t].deleted}
        /\ tab[u].listed # {}
        /\ tab[u].deleted = {}
        /\ KeySet = tab[u].listed

\* C14: once a purge has completed (the enumeration and every deletion it
\* called succeeded), the groups are exactly those it enumerated whose name
\* contains 'dramamu', with their entries untouched; with no group to
\* enumerate it selects and deletes nothing.
C14_PurgeKeepsExactlyProduct ==
    \A t \in Tabs :
        /\ tab[t].purge = "done" =>
               /\ KeySet = {n \in tab[t].listed : ProductName(n)}
               /\ tab[t].deleted = {n \in tab[t].listed : ~ProductName(n)}
               /\ \A n \in KeySet : cacheData[n] = InitialEntries(n)
        /\ (tab[t].before = {} /\ tab[t].purge # "none") =>
               (tab[t].pending = {} /\ tab[t].deleted = {} /\ KeySet = {})

C14_Witness ==
    \E t \in Tabs :
        /\ tab[t].purge = "done"
        /\ tab[t].seen = 0
        /\ tab[t].listed = {ForeignCache, OldProductCache, CACHE_PAGES}
        /\ KeySet = {OldProductCache, CACHE_PAGES}

\* C15: the worker handles a request only if it is a same-origin GET; for a
\* non-GET and for a cross-origin request it calls no strategy, does not read
\* or write a cache group and supplies no response.
C15_OnlySameOriginGet ==
    \A r \in Slots :
        fe[r].request # NoRequest =>
            /\ (fe[r].request.method # "GET" \/ ~fe[r].request.sameOrigin) =>
                   /\ fe[r].pc = "passthrough"
                   /\ fe[r].class = "none"
                   /\ fe[r].strategy = "none"
                   /\ fe[r].net = "none"
                   /\ fe[r].lookup = "none"
                   /\ fe[r].opened = "none"
                   /\ fe[r].put = "none"
                   /\ fe[r].result = [via |-> "none", resp |-> NoResp]
            /\ fe[r].strategy # "none" =>
                   (fe[r].request.method = "GET" /\ fe[r].request.sameOrigin)

C15_Witness ==
    \E r \in Slots :
        /\ fe[r].pc = "passthrough"
        /\ fe[r].request.method = "GET"
        /\ ~fe[r].request.sameOrigin
        /\ Match(fe[r].request.path) # NoResp

\* C16: a cache hit never hands a request the entry that a request of another
\* class stored: when request s stored its response and request r was
\* answered from the cache with that entry, r and s are of one class.
C16_HitFromOwnClass ==
    \A r \in Slots : \A s \in Slots :
        ( /\ fe[s].put = "stored"
          /\ fe[r].lookup = "hit"
          /\ fe[r].request.path = fe[s].request.path
          /\ fe[r].hitGroup = PutTarget(fe[s])
          /\ fe[r].result.resp = fe[s].response )
        => fe[r].class = fe[s].class

\* C19: every request the worker handles is in exactly one class, fixed by
\* its path and its Accept header alone, and exactly one strategy runs for it,
\* once: network-first for document and default, cache-first for static-asset
\* and image.
C19_IsDocument(q) ==
    \/ \E i \in DOMAIN q.accept : q.accept[i] = "text/html"
    \/ q.path = PathRoot
    \/ q.path.ext = "html"
C19_IsAsset(q) == q.path.ext \in {"css", "js"}
C19_IsImage(q) == ToLowerCase(q.path.ext) \in ImageExtensions
C19_OneClassOneStrategy ==
    \A r \in Slots :
        fe[r].strategy # "none" =>
            /\ fe[r].class \in {"document", "static-asset", "image", "default"}
            /\ fe[r].class = "document" <=> C19_IsDocument(fe[r].request)
            /\ fe[r].class = "static-asset" <=>
                   (~C19_IsDocument(fe[r].request) /\ C19_IsAsset(fe[r].request))
            /\ fe[r].class = "image" <=>
                   /\ ~C19_IsDocument(fe[r].request)
                   /\ ~C19_IsAsset(fe[r].request)
                   /\ C19_IsImage(fe[r].request)
            /\ fe[r].class \in {"document", "default"} <=> fe[r].strategy = "networkFirst"
            /\ fe[r].class \in {"static-asset", "image"} <=> fe[r].strategy = "cacheFirst"
            /\ fe[r].strategy = "networkFirst" =>
                   /\ fe[r].pc \in {"nf_fetch", "nf_open", "nf_match", "done"}
                   /\ fe[r].net # "none"
            /\ fe[r].strategy = "cacheFirst" =>
                   /\ fe[r].pc \in {"cf_match", "cf_fetch", "cf_open", "done"}
                   /\ fe[r].net # "none" => fe[r].lookup = "miss"

C19_Witness ==
    \E r \in Slots :
        /\ Done(r)
        /\ fe[r].request.path = PathCss
        /\ fe[r].class = "document"
        /\ fe[r].result = NetworkResult(r)
        /\ Match(PathCss) # NoResp
        /\ \E s \in Slots : fe[s].class = "default" /\ fe[s].strategy = "networkFirst"

\* C17: after teardown (cleanup() has run) the page has no active update
\* timer, whenever the registration completes.
C17_NoTimerAfterTeardown ==
    \A t \in Tabs : tab[t].cleaned => (~tab[t].timer /\ tab[t].updateInterval = 0)

\* C18: when the browser has no service workers, or the registration is
\* rejected, initialize has still read and compared the marker, has started
\* the purge and written the marker when it differed, and has returned.
C18_RegistrationFailureNonFatal ==
    \A t \in Tabs :
        tab[t].reg \in {"unsupported", "failed"} =>
            /\ tab[t].state = "constructed"
            /\ Called(t, "getItem")
            /\ tab[t].decided \in {"purge", "keep"}
            /\ tab[t].seen # tab[t].version =>
                   /\ tab[t].decided = "purge"
                   /\ Called(t, "setItem")
                   /\ env.caches => (Called(t, "keys") /\ tab[t].purge # "none")
            /\ LastDecider(t) => marker = tab[t].version

C18_Witness ==
    \E t \in Tabs :
        /\ tab[t].reg = "failed"
        /\ tab[t].seen \in Tokens \ {tab[t].version}
        /\ tab[t].purge = "done"
        /\ ForeignCache \in tab[t].deleted
        /\ marker = tab[t].version

\* C20 as stated: the registration call is never issued before the version
\* comparison of the same initialize.
C20_CompareBeforeRegister ==
    \A t \in Tabs :
        \A i \in DOMAIN tab[t].calls : \A j \in DOMAIN tab[t].calls :
            (tab[t].calls[i] = "register" /\ tab[t].calls[j] = "getItem") => j < i

\* C20 amended: initialize issues the registration call first, when the
\* browser has service workers, and then reads and compares the marker, starts
\* the purge and writes the marker; the registration settles only after that.
C20_RegisterBeforeCompare ==
    \A t \in Tabs :
        tab[t].state = "constructed" =>
            /\ Called(t, "register") <=> env.serviceWorker
            /\ \A i \in DOMAIN tab[t].calls : \A j \in DOMAIN tab[t].calls :
                   ( /\ tab[t].calls[i] = "register"
                     /\ tab[t].calls[j] \in {"getItem", "keys", "setItem"} ) => i < j
            /\ tab[t].reg \in {"registered", "failed"} =>
                   (Called(t, "getItem") /\ tab[t].decided # "none")

C20_Witness ==
    \E t \in Tabs :
        /\ tab[t].calls = <<"register", "getItem", "keys", "setItem">>
        /\ tab[t].reg = "pending"
        /\ tab[t].purge = "keys"

\* C21 as stated: whenever the marker equals the token of a page that decided
\* to purge, that page's purge has finished deleting the groups it selected.
C21_MarkerMeansPurged ==
    \A t \in Tabs :
        (marker = tab[t].version /\ tab[t].decided = "purge" /\ env.caches) =>
            (tab[t].purge = "done" /\ tab[t].pending = {})

\* C21 amended: a page that decided to purge has called clearOldCaches(), which
\* asks for the list of groups when the browser has caches, and then has
\* written its token as the marker in the same turn; the groups are deleted
\* after the marker is written.
C21_PurgeStartedBeforeWrite ==
    \A t \in Tabs :
        tab[t].decided = "purge" =>
            /\ Called(t, "setItem")
            /\ LastDecider(t) => marker = tab[t].version
            /\ env.caches =>
                   /\ tab[t].purge \in {"keys", "deleting", "done", "failed"}
                   /\ \E i \in DOMAIN tab[t].calls : \E j \in DOMAIN tab[t].calls :
                          i < j /\ tab[t].calls[i] = "keys" /\ tab[t].calls[j] = "setItem"
            /\ ~env.caches => (tab[t].purge = "none" /\ tab[t].deleted = {})

C21_Witness ==
    \E t \in Tabs :
        /\ tab[t].decided = "purge"
        /\ marker = tab[t].version
        /\ tab[t].purge = "deleting"
        /\ ForeignCache \in tab[t].pending
        /\ ForeignCache \in KeySet

\* C22 as stated: when cache-first returns the 200 response the network gave
\* for a request that missed, the assets group holds an entry for the request.
C22_StoredBeforeReturn ==
    \A r \in Slots :
        ( /\ Done(r)
          /\ fe[r].strategy = "cacheFirst"
          /\ fe[r].lookup = "miss"
          /\ fe[r].response.status = 200
          /\ fe[r].result = NetworkResult(r) )
        => cacheData[CACHE_ASSETS][fe[r].request.path] # NoResp

\* C22 amended: when cache-first returns the 200 response for a request that
\* missed and the assets group opened, the write of the clone has been started;
\* the group holds the entry once that write has succeeded, not before.
C22_PutStartedBeforeReturn ==
    \A r \in Slots :
        ( /\ Done(r)
          /\ fe[r].strategy = "cacheFirst"
          /\ fe[r].lookup = "miss"
          /\ fe[r].response.status = 200
          /\ fe[r].opened = "ok" )
        => /\ fe[r].result = NetworkResult(r)
           /\ fe[r].put \in {"pending", "stored", "failed"}
           /\ CACHE_ASSETS \in KeySet
           /\ fe[r].put = "stored" => cacheData[CACHE_ASSETS][fe[r].request.path] # NoResp

C22_Witness ==
    \E r \in Slots : \E s \in Slots \ {r} :
        /\ Done(r)
        /\ fe[r].class = "static-asset"
        /\ fe[r].result = NetworkResult(r)
        /\ fe[r].response.status = 200
        /\ fe[r].put = "pending"
        /\ fe[s].request = fe[r].request
        /\ fe[s].lookup = "miss"
        /\ fe[s].net = "pending"

\* The group the strategy of a class writes to.
C23_Target(f) ==
    IF f.class \in {"document", "default"} THEN CACHE_PAGES ELSE CACHE_ASSETS
\* The paths of the requests network-first, and cache-first, handles.
C23_Paths(classes) ==
    {q.path : q \in {x \in Requests : ~Skipped(x) /\ Classify(x) \in classes}}

\* C23: a strategy opens a group and writes only after its own fetch gave a
\* 200; network-first writes to the pages group only and cache-first to the
\* assets group only.
C23_WritesOnlyOn200 ==
    /\ \A r \in Slots :
           /\ (fe[r].opened # "none" \/ fe[r].put # "none") =>
                  (fe[r].net = "ok" /\ fe[r].response.status = 200)
           /\ fe[r].put # "none" => fe[r].opened = "ok"
           /\ fe[r].put = "stored" =>
                  cacheData[C23_Target(fe[r])][fe[r].request.path] # NoResp
    /\ \A n \in GroupNames : \A p \in Paths :
           cacheData[n][p].body # 0 =>
               \/ n = CACHE_PAGES /\ p \in C23_Paths({"document", "default"})
               \/ n = CACHE_ASSETS /\ p \in C23_Paths({"static-asset", "image"})

C23_Witness ==
    \E r \in Slots : \E s \in Slots :
        /\ Done(r)
        /\ fe[r].strategy = "cacheFirst"
        /\ fe[r].response.status = 500
        /\ fe[r].result = NetworkResult(r)
        /\ fe[r].put = "none"
        /\ Done(s)
        /\ fe[s].strategy = "networkFirst"
        /\ fe[s].net = "error"
        /\ fe[s].put = "none"
        /\ \A n \in GroupNames : \A p \in Paths : cacheData[n][p].body = 0

\* C24: cache-first opens a group and writes only after its own cache check
\* missed, and network-first looks into the caches only after its own fetch
\* failed.
C24_CheckAndPopulateSequenced ==
    \A r \in Slots :
        /\ (fe[r].strategy = "cacheFirst" /\ (fe[r].opened # "none" \/ fe[r].put # "none"))
               => fe[r].lookup = "miss"
        /\ (fe[r].strategy = "networkFirst" /\ fe[r].lookup # "none")
               => fe[r].net = "error"

\* C25: when two requests for one URL both write their response into one
\* group, each write replaces the entry, so the entry is the response written
\* last, and both requests were answered with their network response.
C25_StoredStep(r) ==
    (fe[r].put = "pending" /\ fe'[r].put = "stored") =>
        /\ cacheData'[C23_Target(fe[r])][fe[r].request.path] = fe[r].response
        /\ \A n \in GroupNames : \A p \in Paths :
               (n # C23_Target(fe[r]) \/ p # fe[r].request.path) =>
                   cacheData'[n][p] = cacheData[n][p]
C25_StoredState(r, s) ==
    ( /\ fe[r].put = "stored"
      /\ fe[s].put = "stored"
      /\ fe[r].request.path = fe[s].request.path
      /\ C23_Target(fe[r]) = C23_Target(fe[s]) )
    => /\ fe[r].result = NetworkResult(r)
       /\ fe[s].result = NetworkResult(s)
       /\ cacheData[C23_Target(fe[r])][fe[r].request.path]
              \in {fe[r].response, fe[s].response}
C25_LastWriteWins ==
    /\ [](\A r \in Slots : \A s \in Slots \ {r} : C25_StoredState(r, s))
    /\ [][\A r \in Slots : C25_StoredStep(r)]_vars

C25_Witness ==
    \E r \in Slots : \E s \in Slots \ {r} :
        /\ fe[r].put = "stored"
        /\ fe[s].put = "stored"
        /\ fe[r].request = fe[s].request
        /\ fe[r].response # fe[s].response
        /\ cacheData[C23_Target(fe[r])][fe[r].request.path] = fe[s].response
        /\ s < r

\* C30: whenever the fetch of a strategy gave a response, the strategy returns
\* that response, also when opening the group or writing the entry fails.
C30_StorageFailureKeepsResponse ==
    \A r \in Slots :
        (Done(r) /\ fe[r].net = "ok") => fe[r].result = NetworkResult(r)

\* A group that holds no response.
EmptyGroup(n) == \A p \in Paths : cacheData[n][p] = NoResp

\* C26 as stated: a cache group exists only if a response has been stored
\* into it.
C26_GroupsHoldAResponse ==
    \A n \in KeySet : ~EmptyGroup(n)

\* C26 amended: the assets group exists from the moment install has opened
\* it, before anything is fetched and also when nothing gets stored; a group
\* that holds no response is one that was opened, and a group that does not
\* exist holds nothing.
C26_GroupsCreatedOnOpen ==
    /\ sw.install \in {"addAll", "fulfilled"} => CACHE_ASSETS \in KeySet
    /\ \A n \in KeySet :
           EmptyGroup(n) => (n = CACHE_ASSETS /\ sw.install \in {"addAll", "fulfilled"})
    /\ \A n \in GroupNames \ KeySet : EmptyGroup(n)

C26_Witness ==
    /\ sw.install = "fulfilled"
    /\ sw.fetched # {}
    /\ sw.stored = {}
    /\ CACHE_ASSETS \in KeySet
    /\ EmptyGroup(CACHE_ASSETS)

\* C27: a failure of the enumeration or of a deletion in the activate step is
\* caught, so the promise given to waitUntil is not rejected, and the worker
\* becomes active and claims the pages.
C27_PurgeFailureCaught ==
    /\ sw.activate # "rejected"
    /\ sw.state = "activated" => sw.claimed

\* C28: a worker that has started to install is never discarded: whatever
\* happens to the pre-population of the assets group, it goes on to activate
\* and to claim the pages.
C28_InstallingWorkerActivates ==
    /\ sw.state # "redundant"
    /\ sw.install # "rejected"
    /\ sw.state \in {"activating", "activated"} => (sw.skipWaiting /\ sw.claimed)

\* C29: once a worker has installed and its activate step has completed, every
\* entry cache-first answers with comes from the current assets group, never
\* from the group of an older version or from the pages group.
C29_HitFromCurrentAssets ==
    \A r \in Slots :
        ( /\ sw.install = "fulfilled"
          /\ sw.activate = "fulfilled"
          /\ fe[r].strategy = "cacheFirst"
          /\ fe[r].lookup = "hit" )
        => /\ fe[r].hitGroup = CACHE_ASSETS
           /\ fe[r].hitGroup \notin {OldProductCache, CACHE_PAGES}

====
